---- MODULE Spec2Model ----
(***************************************************************************)
(* A model of bigdrum/godataloader: the cooperative Scheduler with its     *)
(* Notification and WaitGroup (scheduler.go) and the DataLoader            *)
(* (dataloader.go, current revision), in cooperative mode (dl.sch set) and *)
(* in synchronous mode (dl.sch nil, callers are plain goroutines).         *)
(*                                                                         *)
(* Goroutines are the entries of loops: a goroutine runs a dispatch loop   *)
(* (schedule) or, in synchronous mode, one caller.  A task is the closure  *)
(* handed to Spawn/SpawnLow; its position is tasks[t].pc.                  *)
(***************************************************************************)
EXTENDS Integers, Sequences, FiniteSets, TLC

(* ------------------------------ bounds -------------------------------- *)
\* tasks ever spawned in one scheduler run (the root included)
MaxTasks == 3
\* Notify and Wait calls made by application code on user notifications
MaxSignals == 4
\* user notifications created by the root task
NumNotifs == 2
\* LoadMany calls started by the tasks of a scheduler run
MaxLoads == 3
\* Prime, Clear and ClearAll calls made by the tasks of a scheduler run
MaxAdmin == 1
\* caller goroutines of a loader without a scheduler
NumThreads == 2
\* LoadMany calls started by those goroutines
MaxThreadLoads == 2
\* Prime, Clear and ClearAll calls made by those goroutines
MaxThreadAdmin == 2

Nil == 0

(* ------------------------------- keys --------------------------------- *)
\* "a+" is a key that implements MapKeyer; its MapKey() is "a".
Keys == {"a", "b", "c", "a+"}

getMapKey(key) == IF key = "a+" THEN "a" ELSE key

\* the key lists LoadMany is called with: by the callers of a loader without
\* a scheduler, and by the tasks of a scheduler run
SyncKeyLists == {<<"a">>, <<"b">>, <<"a+">>, <<"a", "b">>}

CoopKeyLists == {<<"a">>, <<"b">>}

\* the arguments of LoadMany when a single thread uses a loader that has no
\* scheduler
SoloKeyLists == {<<"a">>, <<"b", "c">>, <<"a", "b", "c">>, <<"a+", "b">>}

NewValue(v, err) == [V |-> v, Err |-> err]

\* the payload of a Value says who made it, for which key, in which call
Payload(by, key, i) == [by |-> by, key |-> key, i |-> i]

\* the zero Value, what a read of an absent map entry yields
ZeroValue == NewValue(Payload("zero", "-", 0), FALSE)

\* the keys that Prime and Clear are called with, in the same two settings
SyncAdminKeys == {"a", "a+"}

CoopAdminKeys == {"a"}

\* the Go maps dl.cache and dl.pending are functions on every possible map
\* key; Absent / NoKey mark the keys that are not in the map
Absent == NewValue(Payload("absent", "-", 0), FALSE)

NoKey == "-"

EmptyCache == [k \in Keys |-> Absent]

EmptyPending == [k \in Keys |-> NoKey]

KeyLists(sch) == IF sch THEN CoopKeyLists ELSE SyncKeyLists

AdminKeys(sch) == IF sch THEN CoopAdminKeys ELSE SyncAdminKeys

LoadBudget(sch) == IF sch THEN MaxLoads ELSE MaxThreadLoads

AdminBudget(sch) == IF sch THEN MaxAdmin ELSE MaxThreadAdmin

VARIABLES
    normalQ, lowQ,      \* Scheduler.normalQ, Scheduler.lowQ (stacks)
    loops,              \* goroutines: dispatch loops and synchronous callers
    wgs,                \* the sync.WaitGroup of every suspended Wait call
    notifs,             \* Notification objects: q and notified
    panicked,           \* an unrecovered panic has ended the process
    tasks,              \* closures and their local variables
    hasSch,             \* dl.sch # nil
    cache, pending,     \* dl.cache, dl.pending
    fetchDone,          \* dl.fetchDone (Nil or a notification)
    mu,                 \* dl.mu: Nil, or the task holding it exclusively
    counter,            \* stat.counter of the batch callback
    numToWait,          \* WaitGroup.numToWait (its n is notifs[1])
    nSignals, waitsOn,  \* history: calls made on user notifications
    nLoads, nAdmin,     \* history: loader calls made
    fetched, removed,   \* history: batch invocations / removals per map key
    served,             \* history: values handed to suspended LoadMany calls
    hist,               \* history: the last Prime/Clear calls, back to back
    wgWaited,           \* history: WaitGroup.Wait has been called
    lows                \* history: the tasks given to SpawnLow

schedVars == <<normalQ, lowQ, loops, wgs, notifs, panicked>>
dlVars == <<hasSch, cache, pending, fetchDone, mu, counter>>
callVars == <<nSignals, waitsOn, nLoads, nAdmin, fetched, removed, served, hist,
              wgWaited>>
histVars == <<callVars, lows>>
vars == <<schedVars, tasks, dlVars, numToWait, histVars>>

(* ----------------------------- helpers -------------------------------- *)
Last(s) == s[Len(s)]
Front(s) == SubSeq(s, 1, Len(s) - 1)
Range(s) == {s[i] : i \in DOMAIN s}

\* schedulable{action, pickNext}: the closure is a task or a wake-up
TaskSchedulable(t) == [kind |-> "task", id |-> t, pickNext |-> TRUE]

\* variant: a wake-up after which the dispatch loop goes on (pickNext true)
WakeSchedulablePickNext(h) == [kind |-> "wake", id |-> h, pickNext |-> TRUE]

WakeSchedulable(h) == [kind |-> "wake", id |-> h, pickNext |-> FALSE]

NewLoop == [st |-> "pick", cur |-> Nil, pickNext |-> FALSE, h |-> Nil]

NewNotification == [q |-> <<>>, notified |-> FALSE]

NewTask(kind, joined, n) ==
    [kind |-> kind, pc |-> "queued", joined |-> joined, keys |-> <<>>, values |-> <<>>,
     keysToFetch |-> <<>>, mkeysToFetch |-> <<>>, keysToFetchIndex |-> <<>>,
     n |-> n, vsi |-> 0, bkeys |-> <<>>, bmkeys |-> <<>>]

Running(t) == \E l \in DOMAIN loops : loops[l].st = "run" /\ loops[l].cur = t

LoopOf(t) == CHOOSE l \in DOMAIN loops : loops[l].st = "run" /\ loops[l].cur = t

UserTasks == {t \in DOMAIN tasks : tasks[t].kind = "user"}

AtOps(t) == ~panicked /\ t \in UserTasks /\ tasks[t].pc = "ops" /\ Running(t)

\* a Notify that wakes the last registered waiter only
WakeupsLastOnly(q) == IF q = <<>> THEN <<>> ELSE <<WakeSchedulable(Last(q))>>

\* the wake-up schedulables Notify appends for the waiters in q
RECURSIVE Wakeups(_)
Wakeups(q) == IF q = <<>> THEN <<>> ELSE <<WakeSchedulable(q[1])>> \o Wakeups(Tail(q))

(* ------------------------------ Scheduler ----------------------------- *)
\* variant: a dispatch loop that serves the low queue first
UseNormalQLowFirst == Len(lowQ) = 0

\* schedule(): q is normalQ unless it is empty (one of the two is not)
UseNormalQ == Len(normalQ) # 0

\* one iteration of schedule(): pop, and run a wake-up closure to its end
schedule(l) ==
    /\ ~panicked
    /\ loops[l].st = "pick"
    /\ IF normalQ = <<>> /\ lowQ = <<>>
       THEN /\ loops' = [loops EXCEPT ![l].st = "returned"]
            /\ UNCHANGED <<normalQ, lowQ, wgs, panicked, tasks>>
       ELSE LET s == IF UseNormalQ THEN Last(normalQ) ELSE Last(lowQ) IN
            /\ IF UseNormalQ
               THEN normalQ' = Front(normalQ) /\ UNCHANGED lowQ
               ELSE lowQ' = Front(lowQ) /\ UNCHANGED normalQ
            /\ IF s.kind = "task"
               THEN /\ loops' = [loops EXCEPT ![l] = [st |-> "run", cur |-> s.id,
                                                     pickNext |-> s.pickNext, h |-> Nil]]
                    /\ tasks' = [tasks EXCEPT ![s.id].pc =
                                    IF tasks[s.id].kind = "fetch" THEN "sfetch" ELSE "ops"]
                    /\ UNCHANGED <<wgs, panicked>>
               ELSE \* wg.Done() of the waiter's sync.WaitGroup
                    /\ IF wgs[s.id] = 0
                       THEN panicked' = TRUE /\ UNCHANGED <<wgs, loops>>
                       ELSE /\ wgs' = [wgs EXCEPT ![s.id] = 0]
                            /\ loops' = [loops EXCEPT ![l].st =
                                            IF s.pickNext THEN "pick" ELSE "returned"]
                            /\ UNCHANGED panicked
                    /\ UNCHANGED tasks
    /\ UNCHANGED <<notifs, dlVars, numToWait, histVars>>

\* wg.Wait() of Notification.Wait returns once the wake-up has run
Resume(l) ==
    /\ ~panicked
    /\ loops[l].st = "blocked"
    /\ wgs[loops[l].h] = 0
    /\ loops' = [loops EXCEPT ![l].st = "run", ![l].h = Nil]
    /\ UNCHANGED <<normalQ, lowQ, wgs, notifs, panicked, tasks, dlVars, numToWait, histVars>>

\* the goroutine of a task that returns goes back to its loop
LoopAfter(l) == [loops EXCEPT ![l].st = IF loops[l].pickNext THEN "pick" ELSE "returned",
                              ![l].cur = Nil]

\* Notification.Wait by task t: the new loops, wgs and notifs
WaitLoops(t, n) ==
    IF notifs[n].notified THEN loops
    ELSE Append([loops EXCEPT ![LoopOf(t)].st = "blocked", ![LoopOf(t)].h = Len(wgs) + 1],
                NewLoop)

\* variant: a Wait whose join-handle starts released
WaitWgsNoBlock(n) == IF notifs[n].notified THEN wgs ELSE Append(wgs, 0)

WaitWgs(n) == IF notifs[n].notified THEN wgs ELSE Append(wgs, 1)

WaitNotifs(n) ==
    IF notifs[n].notified THEN notifs
    ELSE [notifs EXCEPT ![n].q = Append(@, Len(wgs) + 1)]

\* Notification.Notify: the new notifs and normalQ
NotifyNotifs(n) == [notifs EXCEPT ![n].notified = TRUE]

NotifyQ(n) == normalQ \o Wakeups(notifs[n].q)

(* ------------------- application code: scheduler only ------------------ *)
\* sch.Spawn(f) / sch.SpawnLow(f) by a running task
SpawnOp(t, low) ==
    /\ AtOps(t)
    /\ hasSch
    /\ Cardinality(UserTasks) < MaxTasks
    /\ tasks' = Append(tasks, NewTask("user", FALSE, Nil))
    /\ IF low
       THEN lowQ' = Append(lowQ, TaskSchedulable(Len(tasks) + 1)) /\ UNCHANGED normalQ
       ELSE normalQ' = Append(normalQ, TaskSchedulable(Len(tasks) + 1)) /\ UNCHANGED lowQ
    /\ lows' = IF low THEN lows \cup {Len(tasks) + 1} ELSE lows
    /\ UNCHANGED <<loops, wgs, notifs, panicked, dlVars, numToWait, callVars>>

NotifyOp(t, n) ==
    /\ AtOps(t)
    /\ nSignals < MaxSignals
    /\ nSignals' = nSignals + 1
    /\ notifs' = NotifyNotifs(n)
    /\ normalQ' = NotifyQ(n)
    /\ UNCHANGED <<lowQ, loops, wgs, panicked, tasks, dlVars, numToWait, waitsOn, nLoads,
                   nAdmin, fetched, removed, served, hist, wgWaited, lows>>

WaitOp(t, n) ==
    /\ AtOps(t)
    /\ nSignals < MaxSignals
    /\ nSignals' = nSignals + 1
    /\ waitsOn' = [waitsOn EXCEPT ![n] = @ + 1]
    /\ loops' = WaitLoops(t, n)
    /\ wgs' = WaitWgs(n)
    /\ notifs' = WaitNotifs(n)
    /\ UNCHANGED <<normalQ, lowQ, panicked, tasks, dlVars, numToWait, nLoads, nAdmin,
                   fetched, removed, served, hist, wgWaited, lows>>

\* WaitGroup.Done of a joined task (deferred), then the closure returns
FinishOp(t) ==
    /\ AtOps(t)
    /\ tasks' = [tasks EXCEPT ![t].pc = "done"]
    /\ loops' = LoopAfter(LoopOf(t))
    /\ IF tasks[t].joined
       THEN /\ numToWait' = numToWait - 1
            /\ panicked' = (numToWait - 1 < 0)
            /\ IF numToWait - 1 = 0
               THEN notifs' = NotifyNotifs(1) /\ normalQ' = NotifyQ(1)
               ELSE UNCHANGED <<notifs, normalQ>>
       ELSE UNCHANGED <<numToWait, panicked, notifs, normalQ>>
    /\ UNCHANGED <<lowQ, wgs, dlVars, histVars>>

(* ----------------------------- DataLoader ------------------------------ *)
\* the keys for which the batch callback returns a Value that carries an error
FailKeys == {"b"}

\* the batch callback: stat.counter++, then one Value per key, made of the
\* counter and the key ("#<counter>\t<key>" in the tests), with an error for
\* the keys that fail
batchLoader(keys) ==
    [i \in DOMAIN keys |-> NewValue(Payload("batch", keys[i], counter + 1),
                                    keys[i] \in FailKeys)]

RECURSIVE Perms(_)
Perms(S) == IF S = {} THEN {<<>>}
            ELSE UNION {{<<x>> \o p : p \in Perms(S \ {x})} : x \in S}

RECURSIVE Indexes(_)
Indexes(n) == IF n = 0 THEN <<>> ELSE Append(Indexes(n - 1), n)

CacheHit(mkey) == cache[mkey] # Absent

\* variant: a first phase that does not look into the cache
Phase1AllMiss(keys) ==
    [values |-> [i \in DOMAIN keys |-> ZeroValue],
     keysToFetch |-> keys,
     mkeysToFetch |-> [j \in DOMAIN keys |-> getMapKey(keys[j])],
     keysToFetchIndex |-> Indexes(Len(keys))]

\* LoadMany, the read-locked block: hits go to values, misses to the lists
Phase1(keys) ==
    LET miss == SelectSeq(Indexes(Len(keys)), LAMBDA i : ~CacheHit(getMapKey(keys[i]))) IN
    [values |-> [i \in DOMAIN keys |->
                    IF CacheHit(getMapKey(keys[i])) THEN cache[getMapKey(keys[i])]
                    ELSE ZeroValue],
     keysToFetch |-> [j \in DOMAIN miss |-> keys[miss[j]]],
     mkeysToFetch |-> [j \in DOMAIN miss |-> getMapKey(keys[miss[j]])],
     keysToFetchIndex |-> miss]

\* LoadMany, the loop of the write-locked block, from index i on
RECURSIVE Phase2(_, _, _, _, _, _)
Phase2(i, ktf, mktf, kti, vals, pend) ==
    IF i > Len(ktf)
    THEN [keysToFetch |-> ktf, keysToFetchIndex |-> kti, values |-> vals, pending |-> pend]
    ELSE IF CacheHit(mktf[i])
         THEN Phase2(i + 1, Front([ktf EXCEPT ![i] = Last(ktf)]), mktf,
                     Front([kti EXCEPT ![i] = Last(kti)]),
                     [vals EXCEPT ![kti[i]] = cache[mktf[i]]], pend)
         ELSE Phase2(i + 1, ktf, mktf, kti, vals, [pend EXCEPT ![mktf[i]] = ktf[i]])

\* variant: a fetchPending that takes every pending map key
FilterPendingAll == {mk \in Keys : pending[mk] # NoKey}

\* fetchPending: the map keys of dl.pending that are not cached
FilterPending == {mk \in Keys : pending[mk] # NoKey /\ ~CacheHit(mk)}

\* variant: a fetch cycle that stores the values under the keys, not the map keys
StoreFetchedByKey(mkeys, keys, values) ==
    [mk \in Keys |-> IF mk \in Range(keys)
                     THEN values[CHOOSE i \in DOMAIN keys : keys[i] = mk]
                     ELSE cache[mk]]

\* fetchPending: dl.cache[mkeys[i]] = v for every returned value
StoreFetched(mkeys, keys, values) ==
    [mk \in Keys |-> IF mk \in Range(mkeys)
                     THEN values[CHOOSE i \in DOMAIN mkeys : mkeys[i] = mk]
                     ELSE cache[mk]]

\* where a task goes on after fetchPending returns
AfterFetch(t) == IF tasks[t].kind = "fetch" THEN "notify" ELSE "relock"

Step(t, pc) == ~panicked /\ t \in DOMAIN tasks /\ tasks[t].pc = pc /\ Running(t)

\* a task calls dl.LoadMany(keys) (Load is LoadMany of one key)
LoadOp(t, keys) ==
    /\ AtOps(t)
    /\ nLoads < LoadBudget(hasSch)
    /\ nLoads' = nLoads + 1
    /\ tasks' = [tasks EXCEPT ![t].pc = "p1", ![t].keys = keys,
                              ![t].values = [i \in DOMAIN keys |-> ZeroValue]]
    /\ UNCHANGED <<schedVars, dlVars, numToWait, nSignals, waitsOn, nAdmin, fetched, removed,
                   served, hist, wgWaited, lows>>

LmPhase1(t) ==
    /\ Step(t, "p1")
    /\ mu = Nil
    /\ LET r == Phase1(tasks[t].keys) IN
       tasks' = [tasks EXCEPT ![t].values = r.values,
                              ![t].keysToFetch = r.keysToFetch,
                              ![t].mkeysToFetch = r.mkeysToFetch,
                              ![t].keysToFetchIndex = r.keysToFetchIndex,
                              ![t].pc = IF r.keysToFetch = <<>> THEN "ret" ELSE "p2"]
    /\ UNCHANGED <<schedVars, dlVars, numToWait, histVars>>

\* variant: a scheduleFetch that never finds a fetch cycle in flight
FetchInFlightNever == FALSE

\* scheduleFetch: if dl.fetchDone != nil { return dl.fetchDone }
FetchInFlight == fetchDone # Nil

\* the write-locked block and scheduleFetch, up to its Unlock
LmPhase2(t) ==
    /\ Step(t, "p2")
    /\ mu = Nil
    /\ LET r == Phase2(1, tasks[t].keysToFetch, tasks[t].mkeysToFetch,
                       tasks[t].keysToFetchIndex, tasks[t].values, pending)
           me == [tasks[t] EXCEPT !.values = r.values, !.keysToFetch = r.keysToFetch,
                                  !.keysToFetchIndex = r.keysToFetchIndex]
       IN
       /\ pending' = r.pending
       /\ IF FetchInFlight
          THEN /\ tasks' = [tasks EXCEPT ![t] = [me EXCEPT !.n = fetchDone, !.pc = "chk"]]
               /\ UNCHANGED <<fetchDone, notifs, lowQ, lows>>
          ELSE IF ~hasSch
          THEN /\ tasks' = [tasks EXCEPT ![t] = [me EXCEPT !.n = Nil, !.pc = "sfetch"]]
               /\ UNCHANGED <<fetchDone, notifs, lowQ, lows>>
          ELSE /\ notifs' = Append(notifs, NewNotification)
               /\ fetchDone' = Len(notifs) + 1
               /\ tasks' = Append([tasks EXCEPT ![t] = [me EXCEPT !.n = Len(notifs) + 1,
                                                                  !.pc = "chk"]],
                                  NewTask("fetch", FALSE, Len(notifs) + 1))
               /\ lowQ' = Append(lowQ, TaskSchedulable(Len(tasks) + 1))
               /\ lows' = lows \cup {Len(tasks) + 1}
    /\ UNCHANGED <<normalQ, loops, wgs, panicked, hasSch, cache, mu, counter, numToWait,
                   callVars>>

\* variant: a return on an empty key list that skips the reset, as in the
\* earlier revision of fetchPending
ResetOnEmptySkipped == [pending |-> pending, fetchDone |-> fetchDone]

\* fetchPending: the deferred reset, as it runs at the return on an empty
\* key list
ResetOnEmpty == [pending |-> EmptyPending, fetchDone |-> Nil]

\* fetchPending up to the call of the batch callback; the keys come in the
\* order of a Go map iteration, which is any order
FetchBegin(t) ==
    /\ Step(t, "sfetch")
    /\ mu = Nil
    /\ \E mkeys \in Perms(FilterPending) :
          IF mkeys = <<>>
          THEN /\ pending' = ResetOnEmpty.pending
               /\ fetchDone' = ResetOnEmpty.fetchDone
               /\ tasks' = [tasks EXCEPT ![t].pc = AfterFetch(t)]
               /\ UNCHANGED mu
          ELSE /\ mu' = t
               /\ tasks' = [tasks EXCEPT ![t].pc = "batch", ![t].bmkeys = mkeys,
                                         ![t].bkeys = [i \in DOMAIN mkeys |-> pending[mkeys[i]]]]
               /\ UNCHANGED <<pending, fetchDone>>
    /\ UNCHANGED <<schedVars, hasSch, cache, counter, numToWait, histVars>>

\* the batch callback, the stores, and the deferred reset and Unlock
FetchEnd(t) ==
    /\ Step(t, "batch")
    /\ LET values == batchLoader(tasks[t].bkeys)
           mkeys == tasks[t].bmkeys
       IN
       /\ counter' = counter + 1
       /\ cache' = StoreFetched(mkeys, tasks[t].bkeys, values)
       /\ fetched' = [mk \in Keys |-> IF mk \in Range(mkeys) THEN fetched[mk] + 1
                                       ELSE fetched[mk]]
    /\ pending' = EmptyPending
    /\ fetchDone' = Nil
    /\ mu' = Nil
    /\ hist' = <<>>
    /\ tasks' = [tasks EXCEPT ![t].pc = AfterFetch(t), ![t].bkeys = <<>>, ![t].bmkeys = <<>>]
    /\ UNCHANGED <<schedVars, hasSch, numToWait, nSignals, waitsOn, nLoads, nAdmin, removed,
                   served, wgWaited, lows>>

\* the fetch task of scheduleFetch: n.Notify() after fetchPending, and return
FetchNotify(t) ==
    /\ Step(t, "notify")
    /\ notifs' = NotifyNotifs(tasks[t].n)
    /\ normalQ' = NotifyQ(tasks[t].n)
    /\ tasks' = [tasks EXCEPT ![t].pc = "done"]
    /\ loops' = LoopAfter(LoopOf(t))
    /\ UNCHANGED <<lowQ, wgs, panicked, dlVars, numToWait, histVars>>

\* scheduleFetch without a scheduler: Lock again, return nil, deferred Unlock
Relock(t) ==
    /\ Step(t, "relock")
    /\ mu = Nil
    /\ tasks' = [tasks EXCEPT ![t].pc = "chk", ![t].n = Nil]
    /\ UNCHANGED <<schedVars, dlVars, numToWait, histVars>>

\* if len(keysToFetch) > 0 { if n != nil { n.Wait() } ...
LmWait(t) ==
    /\ Step(t, "chk")
    /\ IF tasks[t].keysToFetch = <<>>
       THEN /\ tasks' = [tasks EXCEPT ![t].pc = "ret"]
            /\ UNCHANGED <<loops, wgs, notifs>>
       ELSE /\ tasks' = [tasks EXCEPT ![t].pc = "read", ![t].vsi = 1]
            /\ IF tasks[t].n = Nil
               THEN UNCHANGED <<loops, wgs, notifs>>
               ELSE /\ loops' = WaitLoops(t, tasks[t].n)
                    /\ wgs' = WaitWgs(tasks[t].n)
                    /\ notifs' = WaitNotifs(tasks[t].n)
    /\ UNCHANGED <<normalQ, lowQ, panicked, dlVars, numToWait, histVars>>

\* a map read that runs while another thread is in the write-locked part of
\* fetchPending is a data race: it returns what the map holds, or the
\* runtime ends the process (concurrent map read and map write)
RaceOutcomes(t) == IF mu \in {Nil, t} THEN {FALSE} ELSE BOOLEAN

\* one round of the final loop: values[vi] = dl.cache[mkeysToFetch[vsi]],
\* read without the lock
LmRead(t) ==
    /\ Step(t, "read")
    /\ \E crash \in RaceOutcomes(t) :
          /\ panicked' = crash
          /\ LET vsi == tasks[t].vsi
                 vi == tasks[t].keysToFetchIndex[vsi]
                 mkey == tasks[t].mkeysToFetch[vsi]
             IN
             tasks' = IF crash THEN tasks
                      ELSE [tasks EXCEPT ![t].values[vi] = IF CacheHit(mkey) THEN cache[mkey]
                                                           ELSE ZeroValue,
                                         ![t].vsi = vsi + 1,
                                         ![t].pc = IF vsi = Len(tasks[t].keysToFetchIndex)
                                                   THEN "ret" ELSE "read"]
    /\ UNCHANGED <<normalQ, lowQ, loops, wgs, notifs, dlVars, numToWait, histVars>>

\* what a returning call that was suspended on notification n hands out
Served(t) ==
    IF tasks[t].n = Nil THEN {}
    ELSE {[n |-> tasks[t].n, mkey |-> getMapKey(tasks[t].keys[tasks[t].keysToFetchIndex[j]]),
           v |-> tasks[t].values[tasks[t].keysToFetchIndex[j]]] :
             j \in DOMAIN tasks[t].keysToFetchIndex}

LmReturn(t) ==
    /\ Step(t, "ret")
    /\ served' = served \cup Served(t)
    /\ tasks' = [tasks EXCEPT ![t] = [NewTask("user", tasks[t].joined, Nil) EXCEPT
                                         !.pc = "ops"]]
    /\ UNCHANGED <<schedVars, dlVars, numToWait, nSignals, waitsOn, nLoads, nAdmin, fetched,
                   removed, hist, wgWaited, lows>>

\* the last two Prime/Clear calls that ran back to back
Recent(call) == IF hist = <<>> THEN <<call>> ELSE <<Last(hist), call>>

\* variant: a Prime that overwrites a cached value
PrimeOverwrite(key, v) == [cache EXCEPT ![key] = v]

\* Prime: the cache it leaves
Prime(key, v) == IF CacheHit(key) THEN cache ELSE [cache EXCEPT ![key] = v]

\* the i-th Prime/Clear call of a run primes a value of its own
PrimeValue(key) == NewValue(Payload("prime", key, nAdmin + 1), FALSE)

PrimeOp(t, key) ==
    /\ AtOps(t)
    /\ mu = Nil
    /\ nAdmin < AdminBudget(hasSch)
    /\ nAdmin' = nAdmin + 1
    /\ cache' = Prime(key, PrimeValue(key))
    /\ hist' = Recent([op |-> "Prime", key |-> key, v |-> PrimeValue(key), was |-> cache[key]])
    /\ UNCHANGED <<schedVars, tasks, hasSch, pending, fetchDone, mu, counter, numToWait,
                   nSignals, waitsOn, nLoads, fetched, removed, served, wgWaited, lows>>

ClearOp(t, key) ==
    /\ AtOps(t)
    /\ mu = Nil
    /\ nAdmin < AdminBudget(hasSch)
    /\ nAdmin' = nAdmin + 1
    /\ cache' = [cache EXCEPT ![key] = Absent]
    /\ removed' = [removed EXCEPT ![key] = @ \/ CacheHit(key)]
    /\ hist' = Recent([op |-> "Clear", key |-> key, v |-> Absent, was |-> cache[key]])
    /\ UNCHANGED <<schedVars, tasks, hasSch, pending, fetchDone, mu, counter, numToWait,
                   nSignals, waitsOn, nLoads, fetched, served, wgWaited, lows>>

ClearAllOp(t) ==
    /\ AtOps(t)
    /\ mu = Nil
    /\ nAdmin < AdminBudget(hasSch)
    /\ nAdmin' = nAdmin + 1
    /\ cache' = EmptyCache
    /\ removed' = [k \in Keys |-> removed[k] \/ CacheHit(k)]
    /\ hist' = <<>>
    /\ UNCHANGED <<schedVars, tasks, hasSch, pending, fetchDone, mu, counter, numToWait,
                   nSignals, waitsOn, nLoads, fetched, served, wgWaited, lows>>

(* ------------------- application code: the join ------------------------ *)
\* wg.Add(1); sch.Spawn(func() { defer wg.Done(); ... }) by the root task
SpawnJoinedOp(t) ==
    /\ AtOps(t)
    /\ hasSch
    /\ t = 1
    /\ ~wgWaited
    /\ Cardinality(UserTasks) < MaxTasks
    /\ numToWait' = numToWait + 1
    /\ tasks' = Append(tasks, NewTask("user", TRUE, Nil))
    /\ normalQ' = Append(normalQ, TaskSchedulable(Len(tasks) + 1))
    /\ UNCHANGED <<lowQ, loops, wgs, notifs, panicked, dlVars, histVars>>

\* wg.Wait() by the root task, once its tasks are spawned
WgWaitOp(t) ==
    /\ AtOps(t)
    /\ hasSch
    /\ t = 1
    /\ ~wgWaited
    /\ wgWaited' = TRUE
    /\ IF numToWait = 0
       THEN UNCHANGED <<loops, wgs, notifs>>
       ELSE /\ loops' = WaitLoops(t, 1)
            /\ wgs' = WaitWgs(1)
            /\ notifs' = WaitNotifs(1)
    /\ UNCHANGED <<normalQ, lowQ, panicked, tasks, dlVars, numToWait, nSignals, waitsOn,
                   nLoads, nAdmin, fetched, removed, served, hist, lows>>

\* the integers the tasks pass to WaitGroup.Add
AddArgs == {-1, 1}

\* wg.Add(i) by a running task
AddOp(t, i) ==
    /\ AtOps(t)
    /\ hasSch
    /\ nSignals < MaxSignals
    /\ nSignals' = nSignals + 1
    /\ numToWait' = numToWait + i
    /\ UNCHANGED <<schedVars, tasks, dlVars, waitsOn, nLoads, nAdmin, fetched, removed,
                   served, hist, wgWaited, lows>>

\* wg.Done() by a running task
DoneOp(t) ==
    /\ AtOps(t)
    /\ hasSch
    /\ nSignals < MaxSignals
    /\ nSignals' = nSignals + 1
    /\ numToWait' = numToWait - 1
    /\ panicked' = (numToWait - 1 < 0)
    /\ IF numToWait - 1 = 0
       THEN notifs' = NotifyNotifs(1) /\ normalQ' = NotifyQ(1)
       ELSE UNCHANGED <<notifs, normalQ>>
    /\ UNCHANGED <<lowQ, loops, wgs, tasks, dlVars, waitsOn, nLoads, nAdmin, fetched,
                   removed, served, hist, wgWaited, lows>>

\* wg.Wait() by a running task
JoinWaitOp(t) ==
    /\ AtOps(t)
    /\ hasSch
    /\ nSignals < MaxSignals
    /\ nSignals' = nSignals + 1
    /\ waitsOn' = [waitsOn EXCEPT ![1] = @ + 1]
    /\ IF numToWait = 0
       THEN UNCHANGED <<loops, wgs, notifs>>
       ELSE /\ loops' = WaitLoops(t, 1)
            /\ wgs' = WaitWgs(1)
            /\ notifs' = WaitNotifs(1)
    /\ UNCHANGED <<normalQ, lowQ, panicked, tasks, dlVars, numToWait, nLoads, nAdmin,
                   fetched, removed, served, hist, wgWaited, lows>>

(* --------------------------- specifications --------------------------- *)
EmptyHist ==
    /\ nSignals = 0
    /\ waitsOn = [n \in 1..NumNotifs |-> 0]
    /\ nLoads = 0
    /\ nAdmin = 0
    /\ fetched = [k \in Keys |-> 0]
    /\ removed = [k \in Keys |-> FALSE]
    /\ served = {}
    /\ hist = <<>>
    /\ wgWaited = FALSE
    /\ lows = {}

EmptyLoader(sch) ==
    /\ hasSch = sch
    /\ cache = EmptyCache
    /\ pending = EmptyPending
    /\ fetchDone = Nil
    /\ mu = Nil
    /\ counter = 0

\* RunWithScheduler(f): the root task is spawned and schedule() starts on
\* the caller's goroutine (loops[1]); f has created NumNotifs notifications
InitSched ==
    /\ normalQ = <<TaskSchedulable(1)>>
    /\ lowQ = <<>>
    /\ loops = <<NewLoop>>
    /\ wgs = <<>>
    /\ notifs = [n \in 1..NumNotifs |-> NewNotification]
    /\ panicked = FALSE
    /\ tasks = <<NewTask("user", FALSE, Nil)>>
    /\ numToWait = 0
    /\ EmptyLoader(TRUE)
    /\ EmptyHist

NextSched ==
    \/ \E l \in DOMAIN loops : schedule(l)
    \/ \E l \in DOMAIN loops : Resume(l)
    \/ \E t \in DOMAIN tasks, low \in BOOLEAN : SpawnOp(t, low)
    \/ \E t \in DOMAIN tasks, n \in 1..NumNotifs : NotifyOp(t, n)
    \/ \E t \in DOMAIN tasks, n \in 1..NumNotifs : WaitOp(t, n)
    \/ \E t \in DOMAIN tasks : FinishOp(t)

SpecSched == InitSched /\ [][NextSched]_vars

FairSpecSched == SpecSched /\ WF_vars(NextSched)

\* RunWithScheduler(f) where f has made a WaitGroup (its Notification is
\* notifs[1]) that the tasks of the run share
NextJoin ==
    \/ \E l \in DOMAIN loops : schedule(l)
    \/ \E l \in DOMAIN loops : Resume(l)
    \/ \E t \in DOMAIN tasks, low \in BOOLEAN : SpawnOp(t, low)
    \/ \E t \in DOMAIN tasks, i \in AddArgs : AddOp(t, i)
    \/ \E t \in DOMAIN tasks : DoneOp(t)
    \/ \E t \in DOMAIN tasks : JoinWaitOp(t)
    \/ \E t \in DOMAIN tasks : FinishOp(t)

SpecJoin == InitSched /\ [][NextJoin]_vars

\* RunWithScheduler(f) where f has made a DataLoader with the scheduler and a
\* WaitGroup (its Notification is notifs[1])
InitCoop ==
    /\ normalQ = <<TaskSchedulable(1)>>
    /\ lowQ = <<>>
    /\ loops = <<NewLoop>>
    /\ wgs = <<>>
    /\ notifs = <<NewNotification>>
    /\ panicked = FALSE
    /\ tasks = <<NewTask("user", FALSE, Nil)>>
    /\ numToWait = 0
    /\ EmptyLoader(TRUE)
    /\ EmptyHist

\* New(nil, batchLoader), used by NumThreads goroutines
InitSync ==
    /\ normalQ = <<>>
    /\ lowQ = <<>>
    /\ loops = [t \in 1..NumThreads |-> [st |-> "run", cur |-> t, pickNext |-> FALSE,
                                         h |-> Nil]]
    /\ wgs = <<>>
    /\ notifs = <<NewNotification>>
    /\ panicked = FALSE
    /\ tasks = [t \in 1..NumThreads |-> [NewTask("user", FALSE, Nil) EXCEPT !.pc = "ops"]]
    /\ numToWait = 0
    /\ EmptyLoader(FALSE)
    /\ EmptyHist

\* New(nil, batchLoader), used by one goroutine
InitSolo ==
    /\ normalQ = <<>>
    /\ lowQ = <<>>
    /\ loops = <<[st |-> "run", cur |-> 1, pickNext |-> FALSE, h |-> Nil]>>
    /\ wgs = <<>>
    /\ notifs = <<NewNotification>>
    /\ panicked = FALSE
    /\ tasks = <<[NewTask("user", FALSE, Nil) EXCEPT !.pc = "ops"]>>
    /\ numToWait = 0
    /\ EmptyLoader(FALSE)
    /\ EmptyHist

Init == InitCoop \/ InitSync

LoaderNext ==
    \/ \E t \in DOMAIN tasks, keys \in KeyLists(hasSch) : LoadOp(t, keys)
    \/ \E t \in DOMAIN tasks : LmPhase1(t)
    \/ \E t \in DOMAIN tasks : LmPhase2(t)
    \/ \E t \in DOMAIN tasks : FetchBegin(t)
    \/ \E t \in DOMAIN tasks : FetchEnd(t)
    \/ \E t \in DOMAIN tasks : LmWait(t)
    \/ \E t \in DOMAIN tasks : LmRead(t)
    \/ \E t \in DOMAIN tasks : LmReturn(t)
    \/ \E t \in DOMAIN tasks, key \in AdminKeys(hasSch) : PrimeOp(t, key)
    \/ \E t \in DOMAIN tasks, key \in AdminKeys(hasSch) : ClearOp(t, key)
    \/ \E t \in DOMAIN tasks : ClearAllOp(t)
    \/ \E t \in DOMAIN tasks : FinishOp(t)

CoopNext ==
    \/ \E l \in DOMAIN loops : schedule(l)
    \/ \E l \in DOMAIN loops : Resume(l)
    \/ \E t \in DOMAIN tasks : SpawnOp(t, FALSE)
    \/ \E t \in DOMAIN tasks : SpawnJoinedOp(t)
    \/ \E t \in DOMAIN tasks : WgWaitOp(t)
    \/ \E t \in DOMAIN tasks : FetchNotify(t)

SyncNext == \E t \in DOMAIN tasks : Relock(t)

Next == LoaderNext \/ CoopNext \/ SyncNext

Spec == Init /\ [][Next]_vars

SpecCoop == InitCoop /\ [][LoaderNext \/ CoopNext]_vars

FairSpecCoop == SpecCoop /\ WF_vars(LoaderNext \/ CoopNext)

SpecSync == InitSync /\ [][LoaderNext \/ SyncNext]_vars

SoloNext == \E t \in DOMAIN tasks, keys \in SoloKeyLists : LoadOp(t, keys)

SpecSolo == InitSolo /\ [][LoaderNext \/ SyncNext \/ SoloNext]_vars

(* ------------------------------- claims ------------------------------- *)
\* goroutine l can take a step: it dispatches, runs a task, or has been woken
Live(l) ==
    \/ loops[l].st \in {"pick", "run"}
    \/ loops[l].st = "blocked" /\ wgs[loops[l].h] = 0

\* task t is suspended in a Notification.Wait that has not been released
Suspended(t) ==
    \E l \in DOMAIN loops : loops[l].cur = t /\ loops[l].st = "blocked" /\ wgs[loops[l].h] = 1

\* task t is in a LoadMany call that missed map key mk in its first phase
Missed(t, mk) ==
    /\ tasks[t].pc \in {"p2", "sfetch", "batch", "relock", "chk", "read", "ret"}
    /\ mk \in Range(tasks[t].mkeysToFetch)

\* C1: in either mode the batch callback is invoked at most once with a map
\* key, however many LoadMany calls ask for the key before its fetch cycle has
\* resolved (a key that Clear or ClearAll removed since may be fetched again).
C1_FetchedOnce == \A mk \in Keys : ~removed[mk] => fetched[mk] <= 1

\* C1 witness: two calls of different tasks missed the same key, and the key
\* has been fetched once.
C1_Witness ==
    \E t1, t2 \in DOMAIN tasks, mk \in Keys :
        /\ t1 # t2
        /\ Missed(t1, mk) /\ Missed(t2, mk)
        /\ fetched[mk] = 1 /\ ~removed[mk]

\* C2: the LoadMany calls that were suspended on the same fetch cycle for the
\* same map key all return the same Value, whatever other tasks did between
\* the end of the fetch cycle and the resumption of each call.
C2_SameValue ==
    \A r1, r2 \in served : (r1.n = r2.n /\ r1.mkey = r2.mkey) => r1.v = r2.v

\* a fetch task has been popped and is about to run fetchPending
FetchStarts(f) == tasks[f].kind = "fetch" /\ tasks[f].pc = "sfetch"

\* task t is suspended in LoadMany, on the Notification of a fetch cycle
SuspendedInLoad(t) == tasks[t].kind = "user" /\ tasks[t].pc = "read" /\ Suspended(t)

\* C3: when a low-priority fetch task starts, no normal-priority task is left
\* to run (each started task is finished or suspended), every suspended
\* LoadMany call waits for this very fetch task and has its missing keys in the
\* pending set; and all the values one fetch cycle hands out from the batch
\* callback come from one invocation of it.
C3_Coalescing ==
    /\ \A f \in DOMAIN tasks : FetchStarts(f) =>
          /\ normalQ = <<>>
          /\ \A t \in UserTasks : tasks[t].pc \in {"queued", "done"} \/ Suspended(t)
          /\ \A t \in UserTasks : SuspendedInLoad(t) =>
                /\ tasks[t].n = tasks[f].n
                /\ \A j \in DOMAIN tasks[t].mkeysToFetch :
                      pending[tasks[t].mkeysToFetch[j]] # NoKey
    /\ \A r1, r2 \in served :
          (r1.n = r2.n /\ r1.v.V.by = "batch" /\ r2.v.V.by = "batch") => r1.v.V.i = r2.v.V.i

\* C3 witness: two calls for different keys were suspended on one fetch cycle
\* and both got their value from the same invocation of the batch callback.
C3_Witness ==
    \E r1, r2 \in served :
        /\ r1.n = r2.n /\ r1.mkey # r2.mkey
        /\ r1.v.V.by = "batch" /\ r2.v.V.by = "batch" /\ r1.v.V.i = r2.v.V.i

AllCached(keys) == \A i \in DOMAIN keys : CacheHit(getMapKey(keys[i]))

\* C4: a LoadMany call whose keys are all cached returns the cached values
\* after its first phase, without touching the pending set, the fetch cycle
\* marker, the queues, the cache or the batch callback; and no key that is
\* cached is part of the key list the batch callback is invoked with.
C4_NoFetchOnHit ==
    /\ [][\A t \in DOMAIN tasks :
             (tasks[t].pc = "p1" /\ tasks'[t].pc # "p1" /\ AllCached(tasks[t].keys)) =>
                /\ tasks'[t].pc = "ret"
                /\ tasks'[t].values = [i \in DOMAIN tasks[t].keys |->
                                          cache[getMapKey(tasks[t].keys[i])]]
                /\ UNCHANGED <<pending, fetchDone, lowQ, normalQ, cache, counter, fetched>>]_vars
    /\ [](\A t \in DOMAIN tasks : tasks[t].pc = "batch" =>
             \A i \in DOMAIN tasks[t].bmkeys : ~CacheHit(tasks[t].bmkeys[i]))

\* C4 witness: a call returns values that all came from the cache, some of
\* them fetched earlier by the batch callback.
C4_Witness ==
    \E t \in DOMAIN tasks :
        /\ tasks[t].pc = "ret"
        /\ tasks[t].keys # <<>>
        /\ tasks[t].mkeysToFetch = <<>>
        /\ \E i \in DOMAIN tasks[t].values : tasks[t].values[i].V.by = "batch"

\* C5: RunWithScheduler (the dispatch loop of loops[1]) has not returned while
\* a task is queued or a goroutine of the run can still take a step.
C5_RunWaitsForAll ==
    loops[1].st = "returned" =>
        /\ normalQ = <<>> /\ lowQ = <<>>
        /\ \A l \in DOMAIN loops : ~Live(l)

\* C6: at most one goroutine of a scheduler run can take a step, so at most
\* one task executes application code; every other started task is finished
\* or blocked inside Notification.Wait.
C6_SingleActive ==
    /\ Cardinality({l \in DOMAIN loops : Live(l)}) <= 1
    /\ \A t \in UserTasks :
          tasks[t].pc \in {"queued", "done"}
          \/ \E l \in DOMAIN loops : loops[l].cur = t /\ loops[l].st \in {"run", "blocked"}

\* C6 witness: two tasks are blocked in Wait, one wake-up has already ended
\* the loop that ran it, and a task is running.
C6_Witness ==
    /\ Cardinality({l \in DOMAIN loops : loops[l].st = "blocked"}) >= 2
    /\ \E l \in DOMAIN loops : loops[l].st = "returned"
    /\ \E l \in DOMAIN loops : loops[l].st = "run"

\* C7: in cooperative mode, with a batch callback that returns, every run
\* ends with all its tasks finished, the run of the boundary test included. A
\* task finishes only after each of its LoadMany calls has returned, so no
\* call that suspended on the Notification of a fetch cycle stays suspended
\* and no run deadlocks.
C7_NoLostWakeup == <>[](\A t \in DOMAIN tasks : tasks[t].pc = "done")

\* C7 witness: the run of the boundary test has ended: the root spawned two
\* joined tasks and waited for them, one task primed "a", two calls for "a"
\* were served the primed value, one more call fetched "b".
C7_Witness ==
    /\ \A t \in DOMAIN tasks : tasks[t].pc = "done"
    /\ \A l \in DOMAIN loops : loops[l].st = "returned"
    /\ Cardinality({t \in UserTasks : tasks[t].joined}) = 2
    /\ wgWaited /\ numToWait = 0 /\ notifs[1].q # <<>>
    /\ nLoads = 3 /\ nAdmin = 1
    /\ cache["a"].V.by = "prime" /\ fetched["a"] = 0 /\ fetched["b"] = 1
    /\ \E r \in served : r.mkey = "a" /\ r.v = cache["a"]
    /\ \E r \in served : r.mkey = "b" /\ r.v = cache["b"]

\* C8: every Value a LoadMany call returns at position i was made for a key
\* with the map key of keys[i], by the batch callback or by Prime; it is
\* never the zero Value.
C8_ResultCorrect ==
    \A t \in DOMAIN tasks : tasks[t].pc = "ret" =>
        \A i \in DOMAIN tasks[t].keys :
            /\ tasks[t].values[i].V.by \in {"batch", "prime"}
            /\ getMapKey(tasks[t].values[i].V.key) = getMapKey(tasks[t].keys[i])

PrimeThenPrime ==
    /\ Len(hist) = 2
    /\ hist[1].op = "Prime" /\ hist[2].op = "Prime" /\ hist[1].key = hist[2].key

ClearThenPrime ==
    /\ Len(hist) = 2
    /\ hist[1].op = "Clear" /\ hist[2].op = "Prime" /\ hist[1].key = hist[2].key

\* C9 as stated: after Prime(k, v1) and then Prime(k, v2) the cached value of
\* k is v1; after Clear(k) and then Prime(k, v2) it is v2.
C9_Original ==
    /\ PrimeThenPrime => cache[hist[1].key] = hist[1].v
    /\ ClearThenPrime => cache[hist[2].key] = hist[2].v

\* C9 amended: after Prime(k, v1) and then Prime(k, v2) the cached value of k
\* is the one it had after the first Prime: v1 if k was not cached before,
\* else the value that was cached; after Clear(k) and then Prime(k, v2) it
\* is v2.
C9_PrimeIdempotent ==
    /\ PrimeThenPrime =>
          cache[hist[1].key] = IF hist[1].was = Absent THEN hist[1].v ELSE hist[1].was
    /\ ClearThenPrime => cache[hist[2].key] = hist[2].v

\* C9 witness: two Prime calls for a key that was not cached ran back to back.
C9_Witness == PrimeThenPrime /\ hist[1].was = Absent /\ hist[1].v # hist[2].v

\* C10: a waiter of a notified Notification is released or has its wake-up in
\* the normal queue (so no Wait after Notify suspends its caller), and the
\* wake-ups are run: the process does not end while a waiter that registered
\* before the Notify is still suspended.
C10_StickyLatch ==
    /\ \A n \in DOMAIN notifs : notifs[n].notified =>
          \A i \in DOMAIN notifs[n].q :
              \/ wgs[notifs[n].q[i]] = 0
              \/ \E j \in DOMAIN normalQ :
                    normalQ[j].kind = "wake" /\ normalQ[j].id = notifs[n].q[i]
    /\ ~(panicked /\ \E n \in DOMAIN notifs :
                        notifs[n].notified /\ \E i \in DOMAIN notifs[n].q :
                                                 wgs[notifs[n].q[i]] = 1)

\* the entries a step appends to the normal queue
Appended(j) == j \in DOMAIN normalQ' /\ j > Len(normalQ)

\* C11: a Notify queues no wake-up for a waiter that has been released
\* already, so calling Notify again changes nothing for the waiters released
\* by the first call, and no wake-up is run for a join-handle whose counter is
\* zero (which would panic).
C11_NotifyIdempotent ==
    [][/\ \A j \in DOMAIN normalQ' :
             (Appended(j) /\ normalQ'[j].kind = "wake") => wgs[normalQ'[j].id] = 1
       /\ ~panicked']_vars

\* C12: the count of a WaitGroup is never negative in a run that goes on: a
\* call that would take it below zero panics.
C12_CountNotNegative == numToWait >= 0 \/ panicked

\* C13: when a Done takes the count of the WaitGroup back to zero, the
\* Notification it owns is fired, and it has not been fired before: the
\* Notification is fired once however often the count returns to zero, so a
\* waiter is released once.
C13_FiresOnce ==
    [][(numToWait = 1 /\ numToWait' = 0 /\ notifs'[1].notified) => ~notifs[1].notified]_vars

\* C14: the key list the batch callback is invoked with is not empty, holds
\* one key per map key (no map key twice), and none of its map keys is in
\* the cache when the callback is called.
C14_BatchArgWellFormed ==
    \A t \in DOMAIN tasks : tasks[t].pc = "batch" =>
        /\ tasks[t].bkeys # <<>>
        /\ Len(tasks[t].bkeys) = Len(tasks[t].bmkeys)
        /\ \A i \in DOMAIN tasks[t].bkeys :
              /\ getMapKey(tasks[t].bkeys[i]) = tasks[t].bmkeys[i]
              /\ cache[tasks[t].bmkeys[i]] = Absent
              /\ \A j \in DOMAIN tasks[t].bkeys :
                    i # j => tasks[t].bmkeys[i] # tasks[t].bmkeys[j]

\* C14 witness: the batch callback is about to be called with some keys
\* while another pending key, cached in the meantime, has been left out.
C14_Witness ==
    \E t \in DOMAIN tasks :
        /\ tasks[t].pc = "batch"
        /\ \E mk \in Keys :
              /\ pending[mk] # NoKey /\ cache[mk] # Absent
              /\ mk \notin Range(tasks[t].bmkeys)

\* C15: a Value with an error is cached like any other: every call that was
\* suspended on the fetch cycle of a failing key is handed the error Value of
\* the batch callback, a failing key that was not removed is fetched once and
\* stays cached with its error, and the Values of the other keys carry none.
C15_ErrorCached ==
    /\ \A r \in served : r.mkey \in FailKeys =>
          r.v.Err /\ r.v.V.by = "batch" /\ getMapKey(r.v.V.key) = r.mkey
    /\ \A mk \in FailKeys : (fetched[mk] > 0 /\ ~removed[mk]) =>
          fetched[mk] = 1 /\ cache[mk].Err /\ cache[mk].V.by = "batch"
    /\ \A mk \in Keys \ FailKeys : ~cache[mk].Err

\* the positions of the keys of the call of task t that missed the cache
MissedAt(t) == {i \in DOMAIN tasks[t].keys :
                   getMapKey(tasks[t].keys[i]) \in Range(tasks[t].mkeysToFetch)}

\* C16: without a scheduler a LoadMany call made by the only thread that
\* uses the loader fetches inline: nothing is queued and no goroutine is
\* suspended; the batch callback is invoked with exactly the map keys the
\* call missed, none of them cached; and the call returns, for all the keys
\* it missed, the Values of one invocation, the latest one, while the keys
\* it found cached keep the Values they had.
C16_SyncBatching ==
    /\ normalQ = <<>> /\ lowQ = <<>> /\ fetchDone = Nil /\ Len(loops) = 1
    /\ loops[1].st # "blocked"
    /\ \A t \in DOMAIN tasks : tasks[t].pc = "batch" =>
          /\ Range(tasks[t].bmkeys) = Range(tasks[t].mkeysToFetch)
          /\ \A i \in DOMAIN tasks[t].keys :
                i \notin MissedAt(t) => tasks[t].values[i] = cache[getMapKey(tasks[t].keys[i])]
    /\ \A t \in DOMAIN tasks : tasks[t].pc = "ret" =>
          \A i \in DOMAIN tasks[t].keys :
              /\ tasks[t].values[i] = cache[getMapKey(tasks[t].keys[i])]
              /\ IF i \in MissedAt(t)
                 THEN /\ tasks[t].values[i].V.by = "batch"
                      /\ tasks[t].values[i].V.i = counter
                 ELSE (tasks[t].values[i].V.by = "batch" /\ MissedAt(t) # {}) =>
                         tasks[t].values[i].V.i < counter

\* C16 witness: after Load("a"), LoadMany(["a", "b", "c"]) returns the Value
\* of the first invocation for "a" and Values of the second for "b" and "c".
C16_Witness ==
    \E t \in DOMAIN tasks :
        /\ tasks[t].pc = "ret"
        /\ tasks[t].keys = <<"a", "b", "c">>
        /\ counter = 2
        /\ tasks[t].values = <<NewValue(Payload("batch", "a", 1), FALSE),
                               NewValue(Payload("batch", "b", 2), TRUE),
                               NewValue(Payload("batch", "c", 2), FALSE)>>

\* task t takes a step of a Loader operation that reads or writes dl.cache or
\* dl.pending
Accesses(t) ==
    /\ tasks[t].pc \in {"p1", "p2", "sfetch", "batch", "read"}
    /\ tasks'[t] # tasks[t]

\* C17: dl.cache and dl.pending are read and written under the lock, so no
\* thread reads or writes them while another thread holds the lock
\* exclusively, and no access is a data race that ends the process.
C17_LockDiscipline ==
    [][/\ \A t \in DOMAIN tasks : Accesses(t) => mu \in {Nil, t}
       /\ (mu # Nil /\ mu' # Nil) => (cache' = cache /\ pending' = pending)]_vars

\* a dispatch loop pops the low queue in this step
PopsLow == Len(lowQ') < Len(lowQ)

\* C18: a dispatch loop pops the low queue only when the normal queue is
\* empty, and then every task that is not low-priority is finished or
\* blocked in Notification.Wait (the low-priority tasks are queued, finished
\* or blocked).
C18_PriorityLanes ==
    [][PopsLow =>
          /\ normalQ = <<>>
          /\ \A t \in UserTasks :
                \/ tasks[t].pc = "done"
                \/ Suspended(t)
                \/ t \in lows /\ tasks[t].pc = "queued"]_vars

\* C18 witness: a low-priority task runs while a normal-priority task is
\* blocked in Wait and another one has finished.
C18_Witness ==
    /\ \E t \in lows : tasks[t].pc = "ops" /\ Running(t)
    /\ \E t \in UserTasks \ lows : Suspended(t)
    /\ \E t \in UserTasks \ lows : tasks[t].pc = "done"
    /\ normalQ = <<>>

\* the task that waits with join-handle h is still blocked in Wait
BlockedOn(h) == \E l \in DOMAIN loops : loops[l].st = "blocked" /\ loops[l].h = h

\* C19: as long as Notify has not been called on a Notification, every task
\* that called Wait on it is blocked and its join-handle is not released; so
\* a waiter resumes only after the Notify, when the notifying task has made
\* its changes.
C19_WaitBlocksUntilNotify ==
    \A n \in DOMAIN notifs : ~notifs[n].notified =>
        \A i \in DOMAIN notifs[n].q :
            wgs[notifs[n].q[i]] = 1 /\ BlockedOn(notifs[n].q[i])

\* C19 witness: two tasks waited on one Notification, it was notified, both
\* waiters have resumed, and a low-priority task has run to its end.
C19_Witness ==
    \E n \in DOMAIN notifs :
        /\ notifs[n].notified
        /\ Len(notifs[n].q) = 2
        /\ \A i \in DOMAIN notifs[n].q :
              wgs[notifs[n].q[i]] = 0 /\ ~BlockedOn(notifs[n].q[i])
        /\ \E t \in lows : tasks[t].pc = "done"
        /\ ~panicked

\* no dispatch loop will pop again: the process has ended with a panic, or
\* every goroutine has returned or is blocked with its join-handle unreleased
Stopped == panicked \/ \A l \in DOMAIN loops : ~Live(l)

\* the tasks (not the wake-ups) that sit in a queue
QueuedTasks == {normalQ[j].id : j \in {i \in DOMAIN normalQ : normalQ[i].kind = "task"}}
               \cup {lowQ[j].id : j \in DOMAIN lowQ}

\* C20: a task is in a queue exactly as long as it has not been started, so
\* it is popped once and never run twice; and when no dispatch loop will pop
\* again, no task is left in a queue.
C20_RunExactlyOnce ==
    /\ \A t \in UserTasks : (t \in QueuedTasks) <=> (tasks[t].pc = "queued")
    /\ Len(SelectSeq(normalQ, LAMBDA e : e.kind = "task")) + Len(lowQ)
          = Cardinality(QueuedTasks)
    /\ Stopped => QueuedTasks = {}

\* the fetch tasks that scheduleFetch has spawned and that no dispatch loop
\* has popped yet
QueuedFetches == {f \in DOMAIN tasks : tasks[f].kind = "fetch" /\ tasks[f].pc = "queued"}

\* the entries of the low queue that are fetch tasks
LowFetchEntries == {j \in DOMAIN lowQ : lowQ[j].kind = "task" /\ tasks[lowQ[j].id].kind = "fetch"}

\* C21: with a scheduler, at most one fetch task that has not run yet is in
\* the low queue, and it is the one of the in-flight marker; a fetch task that
\* has not finished fetchPending is the one dl.fetchDone belongs to; and a
\* LoadMany call that registers its misses while dl.fetchDone is set takes that
\* Notification and spawns no fetch task.
C21_OneFetchInFlight ==
    /\ [](hasSch =>
            /\ Cardinality(QueuedFetches) <= 1
            /\ Cardinality(LowFetchEntries) = Cardinality(QueuedFetches)
            /\ \A f \in DOMAIN tasks :
                  (tasks[f].kind = "fetch" /\ tasks[f].pc \in {"queued", "sfetch", "batch"}) =>
                      fetchDone = tasks[f].n)
    /\ [][\A t \in DOMAIN tasks :
             (hasSch /\ tasks[t].pc = "p2" /\ tasks'[t].pc # "p2" /\ fetchDone # Nil) =>
                /\ tasks'[t].n = fetchDone
                /\ Len(tasks') = Len(tasks)
                /\ UNCHANGED <<lowQ, normalQ, fetchDone, notifs>>]_vars

\* C21 witness: a fetch task waits in the low queue and two LoadMany calls of
\* different tasks, each with a key still to fetch, hold its Notification.
C21_Witness ==
    /\ hasSch
    /\ Cardinality(QueuedFetches) = 1
    /\ \E t1, t2 \in UserTasks :
          /\ t1 # t2
          /\ tasks[t1].pc = "read" /\ tasks[t2].pc = "read"
          /\ tasks[t1].n = fetchDone /\ tasks[t2].n = fetchDone
          /\ fetchDone # Nil

\* task t is inside fetchPending
InFetchPending(t) == tasks[t].pc \in {"sfetch", "batch"}

\* C22: whenever fetchPending returns, with or without an invocation of the
\* batch callback, the pending set is empty, dl.fetchDone is nil and the lock
\* is free; so the marker never names a Notification that has fired, with a
\* scheduler the pending set is empty whenever no fetch cycle is in flight,
\* and a LoadMany call that registers a miss when no cycle is in flight spawns
\* a new fetch task with a fresh Notification.
C22_FetchResets ==
    /\ [][\A t \in DOMAIN tasks :
             (InFetchPending(t) /\ ~InFetchPending(t)') =>
                 pending' = EmptyPending /\ fetchDone' = Nil /\ mu' = Nil]_vars
    /\ [](fetchDone # Nil => ~notifs[fetchDone].notified)
    /\ []((hasSch /\ fetchDone = Nil) => pending = EmptyPending)
    /\ [][\A t \in DOMAIN tasks :
             (hasSch /\ tasks[t].pc = "p2" /\ tasks'[t].pc # "p2" /\ fetchDone = Nil) =>
                /\ fetchDone' = Len(notifs) + 1
                /\ tasks'[t].n = fetchDone'
                /\ notifs'[fetchDone'] = NewNotification
                /\ lowQ' = Append(lowQ, TaskSchedulable(Len(tasks) + 1))
                /\ tasks'[Len(tasks) + 1].kind = "fetch"]_vars

\* C22 witness: a first fetch task has finished without any invocation of the
\* batch callback although a call had registered a key for it (the key was
\* primed meanwhile), and a later miss waits on the Notification of a second
\* fetch task.
C22_Witness ==
    \E f1, f2 \in DOMAIN tasks, t \in UserTasks :
        /\ tasks[f1].kind = "fetch" /\ tasks[f1].pc = "done"
        /\ tasks[f2].kind = "fetch" /\ tasks[f2].pc = "queued"
        /\ counter = 0
        /\ notifs[tasks[f1].n].notified
        /\ fetchDone = tasks[f2].n
        /\ tasks[t].pc = "read" /\ tasks[t].n = fetchDone
        /\ \E mk \in Keys : pending[mk] # NoKey /\ cache[mk] = Absent
        /\ \E mk \in Keys : cache[mk].V.by = "prime"

\* task t leaves the write-locked block of LoadMany in this step
LeavesPhase2(t) == tasks[t].pc = "p2" /\ tasks'[t].pc # "p2"

\* C23: the write-locked block of LoadMany looks at every key that missed in
\* the first phase: a key that is cached by now has its cached value at its
\* own position of the result and is off the to-fetch list; a key that is
\* still missing is in the pending set, under its map key, and stays on the
\* to-fetch list.
C23_Phase2Complete ==
    [][\A t \in DOMAIN tasks : LeavesPhase2(t) =>
          \A j \in DOMAIN tasks[t].mkeysToFetch :
              LET mkey == tasks[t].mkeysToFetch[j]
                  idx == tasks[t].keysToFetchIndex[j]
              IN IF CacheHit(mkey)
                 THEN /\ tasks'[t].values[idx] = cache[mkey]
                      /\ idx \notin Range(tasks'[t].keysToFetchIndex)
                 ELSE /\ pending'[mkey] = tasks[t].keysToFetch[j]
                      /\ idx \in Range(tasks'[t].keysToFetchIndex)]_vars

\* C24: a step changes the Value the cache holds for a map key only by
\* removing the entry, and a removal is a step of Clear or ClearAll; LoadMany,
\* the fetch cycle and Prime leave every existing entry as it is.
C24_EntriesImmutable ==
    [][\A mk \in Keys :
          (CacheHit(mk) /\ cache'[mk] # cache[mk]) =>
              /\ cache'[mk] = Absent
              /\ removed'[mk]
              /\ nAdmin' = nAdmin + 1
              /\ UNCHANGED <<tasks, pending, fetchDone, counter, fetched>>]_vars

\* C24 witness: an entry made by the first fetch cycle is still the same after
\* a second fetch cycle has run and after a Prime of its key with another
\* value.
C24_Witness ==
    \E mk \in Keys :
        /\ cache[mk].V.by = "batch" /\ cache[mk].V.i = 1
        /\ counter = 2
        /\ hist # <<>>
        /\ Last(hist).op = "Prime" /\ Last(hist).key = mk
        /\ Last(hist).was = cache[mk] /\ Last(hist).v # cache[mk]

\* this step is a call of Prime or Clear (op) with the key
AdminStep(op, key) ==
    /\ nAdmin' = nAdmin + 1
    /\ hist' # <<>>
    /\ Last(hist').op = op /\ Last(hist').key = key

\* C25: Prime and Clear address the entry LoadMany addresses, the one under
\* the map key of the key: after Prime(key, v) that entry is present (v, or
\* what was there before), after Clear(key) it is absent, and the cache has
\* entries under map keys only; the batch callback is invoked with keys as the
\* callers passed them, each registered under its map key.
C25_ConsistentAddressing ==
    /\ [][\A key \in Keys :
             /\ AdminStep("Prime", key) =>
                    cache'[getMapKey(key)] =
                        IF CacheHit(getMapKey(key)) THEN cache[getMapKey(key)]
                        ELSE Last(hist').v
             /\ AdminStep("Clear", key) => cache'[getMapKey(key)] = Absent]_vars
    /\ [](\A key \in Keys : CacheHit(key) => getMapKey(key) = key)
    /\ [](\A t \in DOMAIN tasks : tasks[t].pc = "batch" =>
             \A i \in DOMAIN tasks[t].bkeys :
                 /\ getMapKey(tasks[t].bkeys[i]) = tasks[t].bmkeys[i]
                 /\ pending[tasks[t].bmkeys[i]] = tasks[t].bkeys[i])

====
